---- MODULE Spec2Model ----
(***************************************************************************)
(* WSGI_User middleware (wsgiuser.py): parsing of the User header, the     *)
(* NAI syntax check, the LOCAL_USER environment variable and the           *)
(* "Vary: User" response header.                                           *)
(*                                                                         *)
(* Strings are sequences of code points (naturals), as Python 3 str.       *)
(***************************************************************************)
EXTENDS Integers, Sequences, FiniteSets

(***************************************************************************)
(* Characters.                                                             *)
(***************************************************************************)
LF      == 10
PERCENT == 37
HYPHEN  == 45
DOT     == 46
COLON   == 58
AT      == 64
\* U+FFFD, what bytes.decode (..., errors='replace') puts for undecodable bytes
REPLACEMENT == 65533
\* Python's None, for a str-valued variable
None == << -1 >>

Range(s) == { s[i] : i \in 1..Len(s) }

IsDigit(c) == c \in 48..57
IsUpper(c) == c \in 65..90
IsLower(c) == c \in 97..122
\* [a-zA-Z0-9]
IsAlnum(c) == IsDigit(c) \/ IsUpper(c) \/ IsLower(c)

(***************************************************************************)
(* urllib.parse.unquote (user), encoding='utf-8', errors='replace'.        *)
(***************************************************************************)
IsHex(c) == IsDigit(c) \/ c \in 65..70 \/ c \in 97..102

HexVal(c) == IF IsDigit(c) THEN c - 48
             ELSE IF c \in 65..70 THEN c - 55
             ELSE c - 87

\* A non-ASCII character of the raw string is no byte: unquote decodes the
\* ASCII runs between such characters and keeps the characters as they are.
\* In the byte string they stand negated.

\* unquote_to_bytes: %XX with two hex digits is the byte XX, every other
\* character (a '%' without two hex digits too) stands for itself.
RECURSIVE UnquoteToBytes(_, _)
UnquoteToBytes(s, i) ==
    IF i > Len(s) THEN << >>
    ELSE IF s[i] = PERCENT /\ i + 2 <= Len(s) /\ IsHex(s[i+1]) /\ IsHex(s[i+2])
         THEN << 16 * HexVal(s[i+1]) + HexVal(s[i+2]) >> \o UnquoteToBytes(s, i + 3)
    ELSE IF s[i] >= 128
         THEN << 0 - s[i] >> \o UnquoteToBytes(s, i + 1)
    ELSE << s[i] >> \o UnquoteToBytes(s, i + 1)

IsTail(b, i) == i <= Len(b) /\ b[i] \in 128..191

\* The range of the second byte of a multi-byte sequence led by byte c
SecondOk(b, i, c) ==
    /\ i <= Len(b)
    /\ b[i] \in (CASE c = 224 -> 160..191
                   [] c = 237 -> 128..159
                   [] c = 240 -> 144..191
                   [] c = 244 -> 128..143
                   [] OTHER   -> 128..191)

\* bytes.decode ('utf-8', 'replace'): each maximal ill-formed part becomes one
\* U+FFFD.
RECURSIVE DecodeUtf8(_, _)
DecodeUtf8(b, i) ==
    IF i > Len(b) THEN << >>
    ELSE LET c == b[i] IN
      IF c < 0 THEN << 0 - c >> \o DecodeUtf8(b, i + 1)
      ELSE IF c < 128 THEN << c >> \o DecodeUtf8(b, i + 1)
      ELSE IF c \in 194..223 THEN
        IF IsTail(b, i + 1)
        THEN << (c - 192) * 64 + (b[i+1] - 128) >> \o DecodeUtf8(b, i + 2)
        ELSE << REPLACEMENT >> \o DecodeUtf8(b, i + 1)
      ELSE IF c \in 224..239 THEN
        IF ~ SecondOk(b, i + 1, c) THEN << REPLACEMENT >> \o DecodeUtf8(b, i + 1)
        ELSE IF ~ IsTail(b, i + 2) THEN << REPLACEMENT >> \o DecodeUtf8(b, i + 2)
        ELSE << (c - 224) * 4096 + (b[i+1] - 128) * 64 + (b[i+2] - 128) >>
             \o DecodeUtf8(b, i + 3)
      ELSE IF c \in 240..244 THEN
        IF ~ SecondOk(b, i + 1, c) THEN << REPLACEMENT >> \o DecodeUtf8(b, i + 1)
        ELSE IF ~ IsTail(b, i + 2) THEN << REPLACEMENT >> \o DecodeUtf8(b, i + 2)
        ELSE IF ~ IsTail(b, i + 3) THEN << REPLACEMENT >> \o DecodeUtf8(b, i + 3)
        ELSE << (c - 240) * 262144 + (b[i+1] - 128) * 4096
                + (b[i+2] - 128) * 64 + (b[i+3] - 128) >>
             \o DecodeUtf8(b, i + 4)
      ELSE << REPLACEMENT >> \o DecodeUtf8(b, i + 1)

\* (mutant) the escapes are decoded as Latin-1, one character for each byte
unquote_latin1(s) ==
    LET b == UnquoteToBytes(s, 1)
    IN  [ i \in 1..Len(b) |-> IF b[i] < 0 THEN 0 - b[i] ELSE b[i] ]

unquote(s) ==
    IF PERCENT \notin Range(s) THEN s
    ELSE DecodeUtf8(UnquoteToBytes(s, 1), 1)

(***************************************************************************)
(* The regular expressions.  For an expression X, X (s, i) is the set of   *)
(* positions j such that X matches s[i..j-1]: the matcher backtracks, so a *)
(* concatenation matches when some end of the first part starts a match of *)
(* the second.                                                             *)
(***************************************************************************)

\* rex_char = '[\x80-\xff]', a class of a str pattern: the code points
\* U+0080..U+00FF
rex_char(c) == c \in 128..255

\* rex_utf8_rtext = '(?:[a-zA-Z0-9]|%s)' % rex_char
rex_utf8_rtext(c) == IsAlnum(c) \/ rex_char(c)

\* rex_string = '(?:(?:[a-zA-Z0-9]|%s)+)' % rex_char
rex_string(s, i) ==
    { j \in (i+1)..(Len(s)+1) : \A k \in i..(j-1) : IsAlnum(s[k]) \/ rex_char(s[k]) }

\* rex_username = '(?:%s(?:[.]%s)*)' % (rex_string, rex_string)
RECURSIVE rex_username(_, _)
rex_username(s, i) ==
    LET E == rex_string(s, i)
    IN  E \cup UNION { rex_username(s, j + 1) : j \in { e \in E : e <= Len(s) /\ s[e] = DOT } }

\* rex_ldh_str = '(?:(?:%s|[-])*%s)' % (rex_utf8_rtext, rex_utf8_rtext)
rex_ldh_str(s, i) ==
    { j \in (i+1)..(Len(s)+1) :
        /\ \A k \in i..(j-2) : rex_utf8_rtext(s[k]) \/ s[k] = HYPHEN
        /\ rex_utf8_rtext(s[j-1]) }

\* (?:%s)* % rex_ldh_str
RECURSIVE LdhStar(_, _)
LdhStar(s, i) == {i} \cup UNION { LdhStar(s, j) : j \in rex_ldh_str(s, i) }

\* rex_label = '(?:%s(?:%s)*)' % (rex_utf8_rtext, rex_ldh_str)
rex_label(s, i) ==
    IF i <= Len(s) /\ rex_utf8_rtext(s[i]) THEN LdhStar(s, i + 1) ELSE {}

\* (?:[.]%s)+ % rex_label
RECURSIVE DotLabelPlus(_, _)
DotLabelPlus(s, i) ==
    IF i <= Len(s) /\ s[i] = DOT
    THEN LET L == rex_label(s, i + 1)
         IN  L \cup UNION { DotLabelPlus(s, j) : j \in L }
    ELSE {}

\* rex_realm = '(?:%s(?:[.]%s)+)' % (rex_label, rex_label)
rex_realm(s, i) == UNION { DotLabelPlus(s, j) : j \in rex_label(s, i) }

\* [@]%s % rex_realm
AtRealm(s, i) == IF i <= Len(s) /\ s[i] = AT THEN rex_realm(s, i + 1) ELSE {}

\* rex_nai = '(?:%s(?:[@]%s)?|[@]%s)' % (rex_username, rex_realm, rex_realm)
rex_nai(s, i) ==
    LET U == rex_username(s, i)
    IN  U \cup UNION { AtRealm(s, j) : j \in U } \cup AtRealm(s, i)

\* '$' of a pattern compiled without flags: the end of the string, or the
\* place just before a newline that ends the string
Dollar(s, j) == j = Len(s) + 1 \/ (j = Len(s) /\ s[j] = LF)

\* re_nai = re.compile ('^%s$' % rex_nai), used as re_nai.match (s)
re_nai(s) == \E j \in rex_nai(s, 1) : Dollar(s, j)


(***************************************************************************)
(* The middleware instance.                                                *)
(***************************************************************************)

\* What a caller passes as user_syntax: nothing (None), or a pattern
UserSyntaxArgs == { "None", ".*", "[0-9]+" }

\* user_syntax.match (s): re_nai, or the caller's pattern compiled as it is.
\* match anchors a pattern at the start of the string only; '.*' matches the
\* empty prefix of every string, '[0-9]+' every string that starts with a digit.
Match(user_syntax, s) ==
    CASE user_syntax = "re_nai" -> re_nai(s)
      [] user_syntax = ".*"     -> TRUE
      [] user_syntax = "[0-9]+" -> Len(s) > 0 /\ IsDigit(s[1])

\* WSGI_User.__init__
WSGI_User_init(user_syntax, allow_empty) ==
    [ user_syntax |-> IF user_syntax = "None" THEN "re_nai" ELSE user_syntax,
      allow_empty |-> allow_empty ]

(***************************************************************************)
(* The request.                                                            *)
(***************************************************************************)
Keys == { "HTTP_USER", "LOCAL_USER", "TEST" }

VaryUser    == << "Vary", "User" >>
ContentType == << "Content-Type", "application/json; charset=utf-8" >>

\* (mutant) only a leading colon is refused
HasColon_first(user) == user[1] = COLON

\* ':' in user
HasColon(user) == COLON \in Range(user)

\* (mutant) an empty value that allow_empty refuses is left to the syntax
EmptyUser_syntax(slf) ==
    IF slf.allow_empty \/ Match(slf.user_syntax, << >>) THEN << >> ELSE None

\* user == '': local_user is '' when allow_empty, else stays None
EmptyUser(slf) == IF slf.allow_empty THEN << >> ELSE None

\* __call__, "Parse the User header": the value of local_user at line 141
ParseUser(slf, env) ==
    LET user == env["HTTP_USER"] IN
    IF user = None THEN None
    ELSE IF user = << >> THEN EmptyUser(slf)
    ELSE IF HasColon(user) THEN None
    ELSE LET decoded == unquote(user)
         IN  IF ~ Match(slf.user_syntax, decoded) THEN None ELSE decoded

\* (mutant) the decoded value is written over the raw header too
InnerEnv_overwrite(env, lu) ==
    IF lu # None THEN [ env EXCEPT !["LOCAL_USER"] = lu, !["HTTP_USER"] = lu ] ELSE env

\* __call__, "Decide on impact of the header": inner_env is outer_env itself,
\* with LOCAL_USER set when there is a local_user
InnerEnv(env, lu) ==
    IF lu # None THEN [ env EXCEPT !["LOCAL_USER"] = lu ] ELSE env

\* (mutant) "if local_user:" for "if local_user is not None:"
InnerResp_truthy(lu) == IF lu # None /\ lu # << >> THEN "_add_vary" ELSE "outer_resp"

\* the callback the inner application gets
InnerResp(lu) == IF lu # None THEN "_add_vary" ELSE "outer_resp"

\* _add_vary: resphdrs.append ( ('Vary','User') )
AddVary(resphdrs) == Append(resphdrs, VaryUser)

(***************************************************************************)
(* The inputs.                                                             *)
(***************************************************************************)
\* the most fragments a raw User header is made of
MaxPieces == 3
\* the most characters of an identity a client percent-encodes
MaxPlain == 2

\* Pieces of raw header values: single characters, escapes and the start
\* and the end of a realm
Fragments ==
    { << 65 >>, << 48 >>, << DOT >>, << AT >>, << HYPHEN >>, << COLON >>,
      << PERCENT >>,
      << PERCENT, 67, 51 >>,      \* %C3
      << PERCENT, 67, 65 >>,      \* %CA
      << PERCENT, 65, 48 >>,      \* %A0
      << PERCENT, 51, 65 >>,      \* %3A
      << PERCENT, 48, 65 >>,      \* %0A
      << AT, 65 >>, << DOT, 65 >> }

RECURSIVE Concats(_, _)
Concats(F, n) ==
    IF n = 0 THEN { << >> }
    ELSE LET P == Concats(F, n - 1) IN P \cup { p \o f : p \in P, f \in F }

RawHeaders == Concats(Fragments, MaxPieces)

\* A, 0, '.', '@', '-', ':', '%', newline, U+00E0, U+02A0
PlainChars == { 65, 48, DOT, AT, HYPHEN, COLON, PERCENT, LF, 224, 672 }

PlainIdentities == Concats({ << c >> : c \in PlainChars }, MaxPlain)

\* The percent-encoding of a client (urllib.parse.quote): letters, digits and
\* _ . - ~ / stand for themselves, every other character becomes the %XX of
\* each byte of its UTF-8 encoding.
HexDigit(n) == IF n < 10 THEN 48 + n ELSE 55 + n

Utf8(c) ==
    IF c < 128 THEN << c >>
    ELSE IF c < 2048 THEN << 192 + (c \div 64), 128 + (c % 64) >>
    ELSE IF c < 65536
         THEN << 224 + (c \div 4096), 128 + ((c \div 64) % 64), 128 + (c % 64) >>
    ELSE << 240 + (c \div 262144), 128 + ((c \div 4096) % 64),
            128 + ((c \div 64) % 64), 128 + (c % 64) >>

RECURSIVE Escape(_, _)
Escape(b, i) ==
    IF i > Len(b) THEN << >>
    ELSE << PERCENT, HexDigit(b[i] \div 16), HexDigit(b[i] % 16) >> \o Escape(b, i + 1)

RECURSIVE quote(_, _)
quote(s, i) ==
    IF i > Len(s) THEN << >>
    ELSE (IF IsAlnum(s[i]) \/ s[i] \in { 95, DOT, HYPHEN, 126, 47 }
          THEN << s[i] >> ELSE Escape(Utf8(s[i]), 1)) \o quote(s, i + 1)

\* what the inner application returns, and the header lists it starts its
\* response with
AppIters == { << "body" >>, << "chunk", "chunk" >> }
InnerHeaders == { << ContentType >>, << ContentType, VaryUser >> }
\* a LOCAL_USER that is in the environment before the middleware runs
OldUser == << 111, 108, 100 >>

(***************************************************************************)
(* The state.                                                              *)
(***************************************************************************)
VARIABLES
    self,        \* the middleware instance: user_syntax, allow_empty
    sent,        \* the identity the client percent-encoded, None for a raw header
    envin,       \* the environment as the caller built it
    outer_env,   \* the environment dictionary (inner_env is the same object)
    pc,          \* "idle", "called" (__call__ returned), "done" (response started)
    local_user,  \* local_user of __call__
    inner_env,   \* the environment the inner application was called with
    inner_resp,  \* the callback the inner application was called with
    inner_calls, \* how often the inner application was called
    app_iter,    \* what the inner application returned
    returned,    \* what __call__ returned
    resphdrs,    \* the header list the inner application passed
    delivered,   \* the header list outer_resp received
    outer_calls  \* how often outer_resp was called

vars == << self, sent, envin, outer_env, pc, local_user, inner_env, inner_resp,
           inner_calls, app_iter, returned, resphdrs, delivered, outer_calls >>

NoEnv == [ k \in Keys |-> None ]

Init ==
    /\ self \in { WSGI_User_init(us, ae) : us \in UserSyntaxArgs, ae \in BOOLEAN }
    /\ sent \in { None } \cup PlainIdentities
    /\ \E user \in (IF sent = None THEN { None } \cup RawHeaders ELSE { quote(sent, 1) }),
          old \in { None, OldUser } :
         envin = [ k \in Keys |-> CASE k = "HTTP_USER"  -> user
                                    [] k = "LOCAL_USER" -> old
                                    [] k = "TEST"       -> << 72 >> ]
    /\ outer_env = envin
    /\ pc = "idle"
    /\ local_user = None
    /\ inner_env = NoEnv
    /\ inner_resp = "none"
    /\ inner_calls = 0
    /\ app_iter = << >>
    /\ returned = << >>
    /\ resphdrs = << >>
    /\ delivered = << >>
    /\ outer_calls = 0

\* (mutant) a refused header ends the request without the inner application
Call_refuse ==
    /\ pc = "idle"
    /\ LET lu == ParseUser(self, outer_env) IN
         /\ local_user' = lu
         /\ outer_env' = InnerEnv(outer_env, lu)
         /\ inner_env' = InnerEnv(outer_env, lu)
         /\ inner_resp' = InnerResp(lu)
         /\ IF lu = None /\ outer_env["HTTP_USER"] # None
            THEN inner_calls' = inner_calls /\ app_iter' = << >> /\ returned' = << >>
            ELSE /\ inner_calls' = inner_calls + 1
                 /\ \E body \in AppIters : app_iter' = body /\ returned' = body
    /\ pc' = "called"
    /\ UNCHANGED << self, sent, envin, resphdrs, delivered, outer_calls >>

\* WSGI_User.__call__ with the call of the inner application it ends with
Call ==
    /\ pc = "idle"
    /\ LET lu == ParseUser(self, outer_env) IN
         /\ local_user' = lu
         /\ outer_env' = InnerEnv(outer_env, lu)
         /\ inner_env' = InnerEnv(outer_env, lu)
         /\ inner_resp' = InnerResp(lu)
    /\ inner_calls' = inner_calls + 1
    /\ \E body \in AppIters : app_iter' = body /\ returned' = body
    /\ pc' = "called"
    /\ UNCHANGED << self, sent, envin, resphdrs, delivered, outer_calls >>

\* The inner application starts its response: it calls the callback it was
\* given, _add_vary or outer_resp itself
StartResponse ==
    /\ pc = "called"
    /\ \E hdrs \in InnerHeaders :
         /\ resphdrs' = hdrs
         /\ delivered' = IF inner_resp = "_add_vary" THEN AddVary(hdrs) ELSE hdrs
    /\ outer_calls' = outer_calls + 1
    /\ pc' = "done"
    /\ UNCHANGED << self, sent, envin, outer_env, local_user, inner_env, inner_resp,
                    inner_calls, app_iter, returned >>

Next == Call \/ StartResponse

Spec == Init /\ [][Next]_vars


(***************************************************************************)
(* Properties.                                                             *)
(***************************************************************************)
Header  == envin["HTTP_USER"]
Handled == pc # "idle"

\* the middleware stored nothing and handed the caller's callback on
Rejected ==
    /\ local_user = None
    /\ inner_env = envin
    /\ inner_resp = "outer_resp"
    /\ pc = "done" => delivered = resphdrs

\* the middleware stored the identity v and wrapped the callback
Accepted(v) ==
    /\ local_user = v
    /\ inner_env["LOCAL_USER"] = v
    /\ inner_resp = "_add_vary"
    /\ pc = "done" => delivered = Append(resphdrs, VaryUser)

\* the inner application sees LOCAL_USER exactly when the marker is added
IdentityIffMarker ==
    /\ inner_env["LOCAL_USER"] # None <=> inner_resp = "_add_vary"
    /\ pc = "done" =>
         (inner_env["LOCAL_USER"] # None <=> delivered = Append(resphdrs, VaryUser))

\* C1 as stated: for every request context, LOCAL_USER is in the context the
\* inner application sees if and only if ('Vary','User') is added to the
\* header list that reaches the caller's callback.
C1_AsStated == Handled => IdentityIffMarker

\* C1, amended: for every request context that holds no LOCAL_USER when the
\* middleware is called, LOCAL_USER is in the context the inner application
\* sees if and only if ('Vary','User') is added to the header list that
\* reaches the caller's callback.
C1_IdentityIffMarker ==
    Handled /\ envin["LOCAL_USER"] = None => IdentityIffMarker

C1_Witness ==
    /\ pc = "done"
    /\ envin["LOCAL_USER"] = None
    /\ inner_env["LOCAL_USER"] = << >>
    /\ delivered = Append(resphdrs, VaryUser)

\* a '%' that is not followed by two hex digits
MalformedEscape(s) ==
    \E i \in 1..Len(s) :
        s[i] = PERCENT /\ ~ (i + 2 <= Len(s) /\ IsHex(s[i+1]) /\ IsHex(s[i+2]))

RECURSIVE EncodeUtf8(_, _)
EncodeUtf8(s, i) == IF i > Len(s) THEN << >> ELSE Utf8(s[i]) \o EncodeUtf8(s, i + 1)

\* the bytes of the (ASCII) raw value are no UTF-8: encoding what they decode
\* to gives other bytes
InvalidUtf8(s) ==
    LET b == UnquoteToBytes(s, 1) IN EncodeUtf8(DecodeUtf8(b, 1), 1) # b

DecodeFails(s) == MalformedEscape(s) \/ InvalidUtf8(s)

\* C2: under every configuration a present, non-empty User header whose
\* percent-decoding fails (a malformed escape, or escape bytes that are no
\* valid UTF-8) is rejected: no identity is stored, no marker is added.
C2_DecodeFailureRejected ==
    Handled /\ Header # None /\ Header # << >> /\ DecodeFails(Header) => Rejected

NaiChar(c) == IsAlnum(c) \/ c >= 128

\* one or more '.'-separated non-empty labels of letters, digits and high
\* characters
IsUsername(s) ==
    /\ Len(s) > 0
    /\ \A i \in 1..Len(s) : NaiChar(s[i]) \/ s[i] = DOT
    /\ s[1] # DOT /\ s[Len(s)] # DOT
    /\ \A i \in 1..(Len(s) - 1) : ~ (s[i] = DOT /\ s[i+1] = DOT)

\* two or more '.'-separated labels, each starting and ending with a letter,
\* digit or high character, with '-' allowed inside
IsRealm(s) ==
    /\ Len(s) > 0
    /\ \A i \in 1..Len(s) : NaiChar(s[i]) \/ s[i] = DOT \/ s[i] = HYPHEN
    /\ \E i \in 1..Len(s) : s[i] = DOT
    /\ NaiChar(s[1]) /\ NaiChar(s[Len(s)])
    /\ \A i \in 2..(Len(s) - 1) : s[i] = DOT => NaiChar(s[i-1]) /\ NaiChar(s[i+1])

\* username, username@realm or @realm, from the first character to the last
IsNAI(s) ==
    \/ IsUsername(s)
    \/ \E k \in 1..Len(s) :
         /\ s[k] = AT
         /\ k = 1 \/ IsUsername(SubSeq(s, 1, k - 1))
         /\ IsRealm(SubSeq(s, k + 1, Len(s)))

\* C3: with the default grammar a decoded value is stored only if the whole
\* string, from its first to its last character, is username,
\* username@realm or @realm.
C3_WholeStringNAI ==
    Handled /\ self.user_syntax = "re_nai" /\ Header # None /\ Header # << >>
            /\ local_user # None
        => IsNAI(local_user)

\* C4: with the default grammar every colon-free User header whose escapes
\* decode to valid UTF-8 and whose decoded value is '.'-separated non-empty
\* labels of ASCII letters, digits and non-ASCII characters is accepted, and
\* the decoded value is the identity.
C4_UsernameAccepted ==
    Handled /\ self.user_syntax = "re_nai" /\ Header # None
            /\ COLON \notin Range(Header) /\ ~ DecodeFails(Header)
            /\ IsUsername(unquote(Header))
        => Accepted(unquote(Header))

\* the client percent-encoded an identity that the configured grammar accepts
SentAccepted ==
    /\ sent # None
    /\ Header = quote(sent, 1)
    /\ Match(self.user_syntax, sent)

\* C5 as stated: any string the configured grammar accepts, percent-encoded
\* and sent as the User header, is the identity the middleware stores.
C5_AsStated == Handled /\ SentAccepted => Accepted(sent)

\* C5, amended: any string the configured grammar accepts, other than the
\* empty string under allow_empty=false, percent-encoded and sent as the User
\* header, is the identity the middleware stores.
C5_RoundTrip ==
    Handled /\ SentAccepted /\ (sent # << >> \/ self.allow_empty) => Accepted(sent)

C5_Witness ==
    /\ pc = "done"
    /\ SentAccepted
    /\ 224 \in Range(sent)
    /\ Header # sent
    /\ local_user = sent

\* C6: a User header with a literal colon is rejected under every
\* configuration, whatever decoding and the grammar would make of it.
C6_ColonRejected ==
    Handled /\ Header # None /\ COLON \in Range(Header) => Rejected

C6_Witness ==
    /\ pc = "done"
    /\ Header # None /\ COLON \in Range(Header) /\ Header[1] # COLON
    /\ Match(self.user_syntax, unquote(Header))
    /\ Rejected

\* C7: for a present, empty User header allow_empty alone decides: true
\* stores the empty string and adds the marker, false stores nothing and adds
\* no marker, whatever the grammar accepts.
C7_EmptyPolicy ==
    Handled /\ Header = << >> =>
        IF self.allow_empty THEN Accepted(<< >>) ELSE Rejected

C7_Witness ==
    /\ pc = "done"
    /\ Header = << >>
    /\ ~ self.allow_empty
    /\ Match(self.user_syntax, << >>)
    /\ Rejected

\* C8: on every path (header absent, empty, with a colon, undecodable,
\* refused by the grammar, accepted) the middleware has called the inner
\* application exactly once when it returns, and returns what the inner
\* application returned.
C8_DelegatesOnce ==
    /\ pc = "idle" => inner_calls = 0
    /\ Handled => inner_calls = 1 /\ returned = app_iter /\ app_iter \in AppIters

C8_Witness ==
    /\ pc = "done"
    /\ Header # None /\ MalformedEscape(Header)
    /\ local_user = None
    /\ inner_calls = 1
    /\ returned = app_iter

\* every entry but LOCAL_USER is as the caller built it
OthersKept == \A k \in Keys \ { "LOCAL_USER" } : inner_env[k] = envin[k]

\* without an identity the context and the callback are the caller's own
NoIdentityUnchanged == local_user = None => Rejected

\* C9 as stated: no entry that was in the context is removed or altered, the
\* only change is the added LOCAL_USER, and without an identity the inner
\* application gets the context and the callback unchanged.
C9_AsStated ==
    Handled =>
        /\ \A k \in Keys : envin[k] # None => inner_env[k] = envin[k]
        /\ OthersKept
        /\ NoIdentityUnchanged

\* C9, amended: no entry other than LOCAL_USER is removed or altered, the
\* only change is that LOCAL_USER is set (added, or written over the value it
\* had), and without an identity the inner application gets the context and
\* the callback unchanged.
C9_Frame ==
    Handled =>
        /\ OthersKept
        /\ outer_env = inner_env
        /\ NoIdentityUnchanged

C9_Witness ==
    /\ pc = "done"
    /\ Header # None /\ Header # << >> /\ PERCENT \in Range(Header)
    /\ local_user # None
    /\ inner_env["HTTP_USER"] = Header
    /\ inner_env["LOCAL_USER"] # Header

\* C10: no identity the middleware stores holds a colon, under every
\* configuration and for every header value.
C10_NoColonStored ==
    Handled /\ local_user # None => COLON \notin Range(local_user)

====
